---- MODULE Spec2Model ----
(***************************************************************************)
(* A model of acisfp_check/acis_obs.py: the focal-plane classifier         *)
(* who_in_fp, the Obscat fetch fetch_ocat_data, the interval extractor     *)
(* find_obsid_intervals and the two observation filters                    *)
(* hrc_science_obs_filter and acis_filter.                                 *)
(*                                                                         *)
(* Optional Python values (None, or a local not yet bound) are sequences   *)
(* of length at most one: None is <<>> and a value x is <<x>>.             *)
(* Floating-point catalog quantities are integers: EST_CNT_RATE is in      *)
(* thousandths of a count per second and APP_EXP in ks, so that            *)
(* cnt_rate * (app_exp * 1000.0) is the integer product of the two.        *)
(***************************************************************************)
EXTENDS Integers, Sequences, FiniteSets, TLC

VARIABLES
    pc,                   \* position in the pipeline
    cmd_states,           \* the stream consumed so far, as ScanStored records it
    n,                    \* number of records consumed by the scan loop
    firstpow,             \* find_obsid_intervals: local firstpow
    xtztime,              \* local xtztime (None or a time)
    datestart,            \* local datestart (unbound until a start marker)
    tstart,               \* local tstart
    instrument,           \* local instrument
    obsid_interval_list,  \* the list being built, then returned
    obsids,               \* the obsid list handed to fetch_ocat_data
    ocat_data,            \* what fetch_ocat_data returned (None or the dict)
    net,                  \* the results of the two retry_call of fetch_ocat_data
    got_table,            \* fetch_ocat_data: local got_table
    got_seq_table,        \* fetch_ocat_data: local got_seq_table
    warnings,             \* number of mylog.warning calls
    acis_and_ecs_only,    \* result of hrc_science_obs_filter
    buckets,              \* result of acis_filter
    error,                \* the exception that ended the run ("" if none)
    simpos,               \* who_in_fp: its argument
    is_in_the_fp          \* who_in_fp: its result

vars == <<pc, cmd_states, n, firstpow, xtztime, datestart, tstart, instrument,
          obsid_interval_list, obsids, ocat_data, net, got_table,
          got_seq_table, warnings,
          acis_and_ecs_only, buckets, error, simpos, is_in_the_fp>>

scanvars == <<firstpow, xtztime, datestart, tstart, instrument>>

None == <<>>
Some(x) == <<x>>

(***************************************************************************)
(* Bounds of the model.                                                    *)
(***************************************************************************)
\* records fed to one run of the scan loop
MaxStates == 6
\* records of a recorded command stream (ScanStored)
MaxStream == 4
\* intervals in a list handed directly to the filters
MaxObs == 2
\* simpos values tried on each side of a band edge of who_in_fp
EdgeWidth == 6

(***************************************************************************)
(* who_in_fp                                                               *)
(***************************************************************************)
DefaultSimpos == 80655

\* the band edges excluded
who_in_fp_open(sp) ==
    IF 104839 > sp /\ sp > 82109 THEN "ACIS-I"
    ELSE IF 82108 > sp /\ sp > 70736 THEN "ACIS-S"
    ELSE IF (0 - 20000) > sp /\ sp > (0 - 86147) THEN "HRC-I"
    ELSE IF (0 - 86148) > sp /\ sp > (0 - 104362) THEN "HRC-S"
    ELSE "launchlock"

\* lines 26-40
who_in_fp(sp) ==
    IF 104839 >= sp /\ sp >= 82109 THEN "ACIS-I"
    ELSE IF 82108 >= sp /\ sp >= 70736 THEN "ACIS-S"
    ELSE IF (0 - 20000) >= sp /\ sp >= (0 - 86147) THEN "HRC-I"
    ELSE IF (0 - 86148) >= sp /\ sp >= (0 - 104362) THEN "HRC-S"
    ELSE "launchlock"

Instruments == {"ACIS-I", "ACIS-S", "HRC-I", "HRC-S", "launchlock"}

(***************************************************************************)
(* Commanded states.  A record of the stream carries obsid, power_cmd,     *)
(* simpos, tstart/tstop and datestart/datestop; the dates are the          *)
(* calendar form of the times.                                             *)
(***************************************************************************)
StartCmds == {"WSPOW00000", "WSVIDALLDN"}
ScienceCmds == {"XTZ0000005", "XCZ0000005"}
StopCmd == "AA00000000"
OtherCmd == "WSPOW0CF3F"
PowerCmds == StartCmds \cup ScienceCmds \cup {StopCmd, OtherCmd}

Date(t) == <<"date", t>>

CmdState(o, c, sp, t) ==
    [obsid |-> o, power_cmd |-> c, simpos |-> sp,
     datestart |-> Date(t), datestop |-> Date(t + 1),
     tstart |-> t, tstop |-> t + 1]

\* the inputs of the scan loop
Obsids == {38000, 38001, 59999, 60000, 60001}
Times == {1, 2}
SimPositions == {82108, 0 - 86147, 0 - 86148}
CmdStates ==
    {CmdState(o, c, sp, t) : o \in Obsids, c \in PowerCmds,
                             sp \in SimPositions, t \in Times}

(***************************************************************************)
(* find_obsid_intervals: the body of the loop over cmd_states.             *)
(* A loop state is [firstpow, xtztime, datestart, tstart, instrument,      *)
(* list].                                                                  *)
(***************************************************************************)
\* the lower edge of the range excluded
IsManeuver_lax(obsid) == 60000 > obsid /\ obsid > 38001

\* line 192
IsManeuver(obsid) == 60000 > obsid /\ obsid >= 38001

ObsidDict(st, eachstate) ==
    [datestart |-> st.datestart[1],
     datestop |-> eachstate.datestop,
     tstart |-> st.tstart[1],
     tstop |-> eachstate.tstop,
     start_science |-> st.xtztime[1],
     obsid |-> eachstate.obsid,
     instrument |-> st.instrument[1]]

\* a start marker restarts an interval that is already open
OnStart_restart(st, eachstate) ==
    IF eachstate.power_cmd \in StartCmds
    THEN [st EXCEPT !.firstpow = TRUE,
                    !.datestart = Some(eachstate.datestart),
                    !.tstart = Some(eachstate.tstart)]
    ELSE st

\* lines 198-201
OnStart(st, eachstate) ==
    IF eachstate.power_cmd \in StartCmds /\ ~st.firstpow
    THEN [st EXCEPT !.firstpow = TRUE,
                    !.datestart = Some(eachstate.datestart),
                    !.tstart = Some(eachstate.tstart)]
    ELSE st

\* the science marker latched without `and firstpow`
OnScience_anytime(st, eachstate) ==
    IF eachstate.power_cmd \in ScienceCmds /\ st.xtztime = None
    THEN [st EXCEPT !.xtztime = Some(eachstate.tstart),
                    !.instrument = Some(who_in_fp(eachstate.simpos))]
    ELSE st

\* the last science marker of an open interval wins
OnScience_last(st, eachstate) ==
    IF eachstate.power_cmd \in ScienceCmds /\ st.firstpow
    THEN [st EXCEPT !.xtztime = Some(eachstate.tstart),
                    !.instrument = Some(who_in_fp(eachstate.simpos))]
    ELSE st

\* lines 204-208
OnScience(st, eachstate) ==
    IF eachstate.power_cmd \in ScienceCmds /\ (st.xtztime = None /\ st.firstpow)
    THEN [st EXCEPT !.xtztime = Some(eachstate.tstart),
                    !.instrument = Some(who_in_fp(eachstate.simpos))]
    ELSE st

\* the values cleared only when an interval was emitted
OnStop_keep(st, eachstate) ==
    IF eachstate.power_cmd = StopCmd /\ st.firstpow /\ st.xtztime # None
    THEN [st EXCEPT !.list = Append(st.list, ObsidDict(st, eachstate)),
                    !.firstpow = FALSE,
                    !.xtztime = None]
    ELSE st

\* lines 211-234
OnStop(st, eachstate) ==
    IF eachstate.power_cmd = StopCmd /\ st.firstpow
    THEN [st EXCEPT !.list = IF st.xtztime # None
                             THEN Append(st.list, ObsidDict(st, eachstate))
                             ELSE st.list,
                    !.firstpow = FALSE,
                    !.xtztime = None]
    ELSE st

\* maneuver obsids not skipped
LoopBody_noskip(st, eachstate) ==
    OnStop(OnScience(OnStart(st, eachstate), eachstate), eachstate)

\* lines 189-234: one iteration
LoopBody(st, eachstate) ==
    IF IsManeuver(eachstate.obsid)
    THEN st
    ELSE OnStop(OnScience(OnStart(st, eachstate), eachstate), eachstate)

LoopState ==
    [firstpow |-> firstpow, xtztime |-> xtztime, datestart |-> datestart,
     tstart |-> tstart, instrument |-> instrument, list |-> obsid_interval_list]

SetLoopState(st) ==
    /\ firstpow' = st.firstpow
    /\ xtztime' = st.xtztime
    /\ datestart' = st.datestart
    /\ tstart' = st.tstart
    /\ instrument' = st.instrument
    /\ obsid_interval_list' = st.list

(***************************************************************************)
(* list.sort(key=...): Python's sort is stable, so an element goes after   *)
(* every element with a smaller key and after the earlier elements with    *)
(* the same key.                                                           *)
(***************************************************************************)
StableSort(s, key) ==
    LET Rank(i) ==
            Cardinality({j \in 1..Len(s) :
                            \/ key[j] < key[i]
                            \/ (key[j] = key[i] /\ j < i)}) + 1
    IN  [p \in 1..Len(s) |-> s[CHOOSE i \in 1..Len(s) : Rank(i) = p]]

\* the sort keys of lines 239 and 254
KeyObsid(list) == [i \in 1..Len(list) |-> list[i].obsid]
KeyTstart(list) == [i \in 1..Len(list) |-> list[i].tstart]

Range(s) == {s[i] : i \in 1..Len(s)}

(***************************************************************************)
(* The Obscat behind fetch_ocat_data.  The service answers a request for   *)
(* obsids with the rows it has for them and a request for sequence         *)
(* numbers with one row per obsid of each sequence.  Its content is an     *)
(* input of the model: three observations of the scan's obsids and one     *)
(* further observation (37999) that shares the sequence of 38000.          *)
(* Chips are I0..I3, S0..S5 in this order.                                 *)
(***************************************************************************)
OcatRow(o, seq, grat, chips, dropped, rate, exp) ==
    [OBSID |-> o, SEQ_NUM |-> seq, GRAT |-> grat, CHIPS |-> chips,
     S3 |-> chips[8], DROPPED_CHIP_CNT |-> dropped,
     EST_CNT_RATE |-> rate, APP_EXP |-> exp]

Ocat ==
    {OcatRow(37999, "700001", "NONE",
             <<"N", "N", "N", "N", "N", "N", "Y", "Y", "N", "N">>, 0, 400, 15),
     OcatRow(38000, "700001", "NONE",
             <<"N", "N", "N", "N", "N", "O1", "Y", "Y", "D", "N">>, 1, 400, 10),
     OcatRow(60000, "700002", "NONE",
             <<"N", "N", "N", "N", "N", "N", "N", "Y", "N", "N">>, 0, 10, 20),
     OcatRow(60001, "700003", "HETG",
             <<"N", "N", "N", "N", "Y", "Y", "Y", "Y", "Y", "Y">>, 0, 100, 30)}

OcatOf(o) == CHOOSE r \in Ocat : r.OBSID = o
OcatObsids == {r.OBSID : r \in Ocat}

(***************************************************************************)
(* ska_helpers.retry.retry_call(requests.get, ..., tries=4, delay=1):      *)
(* calls again after an exception, up to `tries` calls, and raises the     *)
(* last exception; a response, OK or not, is returned as it is.            *)
(* An attempt ends "ok", "notok" (a response with resp.ok false),          *)
(* "ConnectionError" or "Timeout" (any other requests exception).          *)
(***************************************************************************)
Tries == 4
Responses == {"ok", "notok"}
Exceptions == {"ConnectionError", "Timeout"}

RECURSIVE retry_call(_, _)
retry_call(attempts, k) ==
    IF attempts[k] \in Responses \/ k = Tries
    THEN attempts[k]
    ELSE retry_call(attempts, k + 1)

RetryResults ==
    {retry_call(a, 1) : a \in [1..Tries -> Responses \cup Exceptions]}

(***************************************************************************)
(* fetch_ocat_data(obsid_list), lines 69-134.  nt is what the network      *)
(* does: r1, r2 the results of the two retry_call, rows the obsids whose   *)
(* rows the first response holds, text1, text2 whether ascii.read can      *)
(* parse the response texts.  The result is [raised, value, warned,        *)
(* got_table, got_seq_table].                                              *)
(***************************************************************************)
SetToSortedSeq(S) ==
    [p \in 1..Cardinality(S) |->
        CHOOSE x \in S : Cardinality({y \in S : y < x}) = p - 1]

\* lines 87-94
CcdCount(row) ==
    Cardinality({c \in 1..10 : row.CHIPS[c] = "Y"})
    + Cardinality({c \in 1..10 : row.CHIPS[c] = "D"})
    + Cardinality({c \in 1..10 : row.CHIPS[c] \in {"O1", "O2", "O3", "O4", "O5"}})
    - row.DROPPED_CHIP_CNT

\* list.index: the first position holding x
IndexOf(s, x) == CHOOSE i \in 1..Len(s) : s[i] = x /\ \A j \in 1..(i - 1) : s[j] # x

RECURSIVE SumExp(_)
SumExp(S) ==
    IF S = {} THEN 0
    ELSE LET r == CHOOSE r \in S : TRUE IN r.APP_EXP + SumExp(S \ {r})

\* lines 118-122: the exposure of the sequence is credited to the first
\* row of tab with that sequence number
AppExp(seq_nums, tab_seq, i) ==
    SumExp({row \in tab_seq : IndexOf(seq_nums, row.SEQ_NUM) = i})

FetchResult(raised, value, warned, got1, got2) ==
    [raised |-> raised, value |-> value, warned |-> warned,
     got_table |-> got1, got_seq_table |-> got2]

\* lines 123-127
TableDict(tab, seq_nums, tab_seq) ==
    [obsid |-> [i \in 1..Len(tab) |-> tab[i].OBSID],
     grating |-> [i \in 1..Len(tab) |-> tab[i].GRAT],
     ccd_count |-> [i \in 1..Len(tab) |-> CcdCount(tab[i])],
     S3 |-> [i \in 1..Len(tab) |-> tab[i].S3],
     num_counts |-> [i \in 1..Len(tab) |->
                        tab[i].EST_CNT_RATE * AppExp(seq_nums, tab_seq, i)]]

\* no except clause
Uncaught_all(r) == r \in Exceptions

\* lines 76 and 106: only requests.ConnectionError is caught
Uncaught(r) == r \in Exceptions \ {"ConnectionError"}

fetch_ocat_data(obsid_list, nt) ==
    IF Uncaught(nt.r1)
    THEN FetchResult(nt.r1, None, 0, TRUE, TRUE)
    ELSE IF nt.r1 # "ok"
    THEN FetchResult("", None, 1, FALSE, TRUE)
    ELSE IF nt.text1 # "ok"
    THEN FetchResult("InconsistentTableError", None, 0, TRUE, TRUE)
    ELSE
    LET tab == LET ids == SetToSortedSeq(nt.rows)
               IN  [i \in 1..Len(ids) |-> OcatOf(ids[i])]
        seq_nums == [i \in 1..Len(tab) |-> tab[i].SEQ_NUM]
        seq_num_list == {seq_nums[i] : i \in {j \in 1..Len(tab) : seq_nums[j] # " "}}
        tab_seq == {r \in Ocat : r.SEQ_NUM \in seq_num_list}
    IN  IF Uncaught(nt.r2)
        THEN FetchResult(nt.r2, None, 0, TRUE, TRUE)
        ELSE IF nt.r2 # "ok"
        THEN FetchResult("", None, 1, TRUE, FALSE)
        ELSE IF nt.text2 # "ok"
        THEN FetchResult("InconsistentTableError", None, 0, TRUE, TRUE)
        ELSE FetchResult("", Some(TableDict(tab, seq_nums, tab_seq)), 0, TRUE, TRUE)

\* what the network can do on a request for obsid_list
Net(r1, rows, text1, r2, text2) ==
    [r1 |-> r1, rows |-> rows, text1 |-> text1, r2 |-> r2, text2 |-> text2]

NetOutcomes(obsid_list) ==
    LET asked == Range(obsid_list) \cap OcatObsids
    IN  {Net(r, {}, "", "", "") : r \in RetryResults \ {"ok"}}
        \cup {Net("ok", rows, "malformed", "", "") : rows \in SUBSET asked}
        \cup {Net("ok", rows, "ok", r, "") :
                 rows \in SUBSET asked, r \in RetryResults \ {"ok"}}
        \cup {Net("ok", rows, "ok", "ok", t) :
                 rows \in SUBSET asked, t \in {"ok", "malformed"}}

(***************************************************************************)
(* find_obsid_intervals after the loop, lines 238-255.                     *)
(***************************************************************************)
\* the key grating left out
WithOcat_nograting(e, d, i) ==
    [datestart |-> e.datestart, datestop |-> e.datestop,
     tstart |-> e.tstart, tstop |-> e.tstop,
     start_science |-> e.start_science, obsid |-> e.obsid,
     instrument |-> e.instrument,
     ccd_count |-> d.ccd_count[i],
     S3 |-> d.S3[i], num_counts |-> d.num_counts[i]]

\* lines 250-251: the four keys of ocat_data other than obsid
WithOcat(e, d, i) ==
    [datestart |-> e.datestart, datestop |-> e.datestop,
     tstart |-> e.tstart, tstop |-> e.tstop,
     start_science |-> e.start_science, obsid |-> e.obsid,
     instrument |-> e.instrument,
     grating |-> d.grating[i], ccd_count |-> d.ccd_count[i],
     S3 |-> d.S3[i], num_counts |-> d.num_counts[i]]

\* obsid 60000 itself taken for a cold ECS observation
IsColdEcs_incl(obsid) == obsid >= 60000

\* line 248: the obsids that get no Obscat data
IsColdEcs(obsid) == obsid > 60000

\* lines 243-251: ocat_data[key][i] raises IndexError past the last row,
\* and the intervals before that one keep what they were given
Attach(list, obs, value) ==
    IF value = None
    THEN [raised |-> "", list |-> list]
    ELSE LET d == value[1]
             rows == Len(d.obsid)
             bad == {i \in 1..Len(obs) : ~IsColdEcs(obs[i]) /\ i > rows}
             stop == IF bad = {} THEN Len(obs) + 1
                     ELSE CHOOSE i \in bad : \A j \in bad : i <= j
         IN  [raised |-> IF bad = {} THEN "" ELSE "IndexError",
              list |-> [i \in 1..Len(list) |->
                           IF i < stop /\ ~IsColdEcs(obs[i])
                           THEN WithOcat(list[i], d, i)
                           ELSE list[i]]]

\* no sort on obsid
SortOnObsid_none(list) == list

\* line 239
SortOnObsid(list) == StableSort(list, KeyObsid(list))

\* no sort on tstart
FinalSort_none(list) == list

\* line 254
FinalSort(list) == StableSort(list, KeyTstart(list))

\* line 241
ObsidsOf(list) == [i \in 1..Len(list) |-> list[i].obsid]

Finish ==
    /\ pc = "scan"
    /\ LET sorted == SortOnObsid(obsid_interval_list)
           obs == ObsidsOf(sorted)
       IN  \E nt \in NetOutcomes(obs) :
             LET res == fetch_ocat_data(obs, nt)
                 att == Attach(sorted, obs, res.value)
             IN  /\ obsids' = obs
                 /\ ocat_data' = res.value
                 /\ net' = [r1 |-> nt.r1, r2 |-> nt.r2]
                 /\ got_table' = res.got_table
                 /\ got_seq_table' = res.got_seq_table
                 /\ warnings' = warnings + res.warned
                 /\ IF res.raised # ""
                    THEN /\ pc' = "raised"
                         /\ error' = res.raised
                         /\ obsid_interval_list' = sorted
                    ELSE IF att.raised # ""
                    THEN /\ pc' = "raised"
                         /\ error' = att.raised
                         /\ obsid_interval_list' = att.list
                    ELSE /\ pc' = "returned"
                         /\ error' = ""
                         /\ obsid_interval_list' = FinalSort(att.list)
    /\ n' = 0
    /\ UNCHANGED <<cmd_states, scanvars, acis_and_ecs_only, buckets,
                   simpos, is_in_the_fp>>

(***************************************************************************)
(* The scan loop, one record per step.  ScanRecord draws the next record   *)
(* of the stream; ScanStored does the same from a smaller set of records   *)
(* and keeps the stream it has consumed in cmd_states.                     *)
(***************************************************************************)
ScanRecord ==
    /\ pc = "scan"
    /\ n < MaxStates
    /\ \E eachstate \in CmdStates : SetLoopState(LoopBody(LoopState, eachstate))
    /\ n' = n + 1
    /\ UNCHANGED <<pc, cmd_states, obsids, ocat_data, net, got_table, got_seq_table,
                   warnings, acis_and_ecs_only, buckets, error, simpos,
                   is_in_the_fp>>

StoredStates ==
    {CmdState(38000, "WSPOW00000", 82108, 2),
     CmdState(60001, "WSVIDALLDN", 82108, 1),
     CmdState(38000, "XTZ0000005", 82108, 1),
     CmdState(60000, "XCZ0000005", 0 - 86148, 2),
     CmdState(38000, "AA00000000", 82108, 1),
     CmdState(60001, "AA00000000", 82108, 2),
     CmdState(38001, "WSPOW00000", 82108, 1),
     CmdState(59999, "XTZ0000005", 0 - 86147, 2),
     CmdState(38001, "AA00000000", 82108, 2),
     CmdState(59999, "AA00000000", 82108, 1),
     CmdState(38000, "WSPOW0CF3F", 82108, 1)}

ScanStored ==
    /\ pc = "scan"
    /\ Len(cmd_states) < MaxStream
    /\ \E eachstate \in StoredStates :
          /\ cmd_states' = Append(cmd_states, eachstate)
          /\ SetLoopState(LoopBody(LoopState, eachstate))
    /\ n' = n + 1
    /\ UNCHANGED <<pc, obsids, ocat_data, net, got_table, got_seq_table,
                   warnings, acis_and_ecs_only, buckets, error, simpos,
                   is_in_the_fp>>

(***************************************************************************)
(* hrc_science_obs_filter, lines 258-270.  The instrument of an interval   *)
(* is one of who_in_fp's five labels, of which two start with "ACIS-".     *)
(***************************************************************************)
StartsWithAcis(label) == label \in {"ACIS-I", "ACIS-S"}

\* obsid 60000 itself not kept
Keeps_strict(eachobservation) ==
    StartsWithAcis(eachobservation.instrument) \/ eachobservation.obsid > 60000

\* lines 267-268
Keeps(eachobservation) ==
    StartsWithAcis(eachobservation.instrument) \/ eachobservation.obsid >= 60000

hrc_science_obs_filter(list) == SelectSeq(list, Keeps)

(***************************************************************************)
(* acis_filter, lines 273-303.  The result is [error, obsid, acis_i,        *)
(* acis_s, acis_hot, cold_ecs]: error is "RuntimeError" and obsid the one   *)
(* named in its message when the loop raised, and then no bucket is         *)
(* returned.                                                                *)
(***************************************************************************)
HasGrating(eachobs) == "grating" \in DOMAIN eachobs

\* lines 285-290
HotAcis(eachobs) ==
    IF HasGrating(eachobs)
    THEN LET hetg == eachobs.grating = "HETG"
             s3_only == eachobs.S3 = "Y" /\ eachobs.ccd_count = 1
         IN  hetg \/ (eachobs.num_counts < 300 /\ s3_only)
    ELSE FALSE

\* an interval no rule matches is dropped
Bucket_drop(eachobs) ==
    IF HotAcis(eachobs) THEN "acis_hot"
    ELSE IF eachobs.instrument = "ACIS-S" THEN "acis_s"
    ELSE IF eachobs.instrument = "ACIS-I" THEN "acis_i"
    ELSE IF eachobs.instrument = "HRC-S" /\ eachobs.obsid >= 60000 THEN "cold_ecs"
    ELSE "dropped"

\* the instrument tested before hot_acis
Bucket_instfirst(eachobs) ==
    IF eachobs.instrument = "ACIS-S" THEN "acis_s"
    ELSE IF eachobs.instrument = "ACIS-I" THEN "acis_i"
    ELSE IF HotAcis(eachobs) THEN "acis_hot"
    ELSE IF eachobs.instrument = "HRC-S" /\ eachobs.obsid >= 60000 THEN "cold_ecs"
    ELSE "raise"

\* lines 291-302: where one interval goes
Bucket(eachobs) ==
    IF HotAcis(eachobs) THEN "acis_hot"
    ELSE IF eachobs.instrument = "ACIS-S" THEN "acis_s"
    ELSE IF eachobs.instrument = "ACIS-I" THEN "acis_i"
    ELSE IF eachobs.instrument = "HRC-S" /\ eachobs.obsid >= 60000 THEN "cold_ecs"
    ELSE "raise"

NoBuckets == [acis_i |-> <<>>, acis_s |-> <<>>, acis_hot |-> <<>>, cold_ecs |-> <<>>]

\* insert at the front
Put_front(b, name, eachobs) == [b EXCEPT ![name] = <<eachobs>> \o b[name]]

\* list.append
Put(b, name, eachobs) == [b EXCEPT ![name] = Append(b[name], eachobs)]

RECURSIVE AcisLoop(_, _, _)
AcisLoop(list, i, b) ==
    IF i > Len(list)
    THEN [error |-> "", obsid |-> None, buckets |-> Some(b)]
    ELSE LET where == Bucket(list[i])
         IN  IF where = "raise"
             THEN [error |-> "RuntimeError", obsid |-> Some(list[i].obsid),
                   buckets |-> None]
             ELSE IF where = "dropped"
             THEN AcisLoop(list, i + 1, b)
             ELSE AcisLoop(list, i + 1, Put(b, where, list[i]))

acis_filter(list) == AcisLoop(list, 1, NoBuckets)

HrcScienceObsFilter ==
    /\ pc = "returned"
    /\ acis_and_ecs_only' = Some(hrc_science_obs_filter(obsid_interval_list))
    /\ pc' = "filtered"
    /\ UNCHANGED <<cmd_states, n, scanvars, obsid_interval_list, obsids,
                   ocat_data, net, got_table, got_seq_table, warnings, buckets,
                   error, simpos, is_in_the_fp>>

AcisResult(list) ==
    LET res == acis_filter(list)
    IN  /\ buckets' = res.buckets
        /\ error' = IF res.error = "" THEN "" ELSE <<res.error, res.obsid[1]>>
        /\ pc' = IF res.error = "" THEN "done" ELSE "raised"

\* acis_filter on what hrc_science_obs_filter kept
AcisFilter ==
    /\ pc = "filtered"
    /\ AcisResult(acis_and_ecs_only[1])
    /\ UNCHANGED <<cmd_states, n, scanvars, obsid_interval_list, obsids,
                   ocat_data, net, got_table, got_seq_table, warnings,
                   acis_and_ecs_only, simpos, is_in_the_fp>>

\* acis_filter called on a list as it is
AcisFilterDirect ==
    /\ pc = "returned"
    /\ AcisResult(obsid_interval_list)
    /\ UNCHANGED <<cmd_states, n, scanvars, obsid_interval_list, obsids,
                   ocat_data, net, got_table, got_seq_table, warnings,
                   acis_and_ecs_only, simpos, is_in_the_fp>>

(***************************************************************************)
(* who_in_fp as a call: line 26 sets the default, lines 30-37 the label.   *)
(***************************************************************************)
WhoInFp ==
    /\ pc = "who"
    /\ is_in_the_fp' = who_in_fp(simpos)
    /\ pc' = "who_done"
    /\ UNCHANGED <<cmd_states, n, scanvars, obsid_interval_list, obsids,
                   ocat_data, net, got_table, got_seq_table, warnings,
                   acis_and_ecs_only, buckets, error, simpos>>

(***************************************************************************)
(* Specifications.                                                         *)
(***************************************************************************)
Start(at, list, sp) ==
    /\ pc = at
    /\ cmd_states = <<>>
    /\ n = 0
    /\ firstpow = FALSE
    /\ xtztime = None
    /\ datestart = None
    /\ tstart = None
    /\ instrument = None
    /\ obsid_interval_list = list
    /\ obsids = <<>>
    /\ ocat_data = None
    /\ net = [r1 |-> "", r2 |-> ""]
    /\ got_table = TRUE
    /\ got_seq_table = TRUE
    /\ warnings = 0
    /\ acis_and_ecs_only = None
    /\ buckets = None
    /\ error = ""
    /\ simpos = sp
    /\ is_in_the_fp = "launchlock"

\* the pipeline: find_obsid_intervals, hrc_science_obs_filter, acis_filter
Init == Start("scan", <<>>, DefaultSimpos)

Next == ScanRecord \/ Finish \/ HrcScienceObsFilter \/ AcisFilter

Spec == Init /\ [][Next]_vars

\* find_obsid_intervals over a recorded stream
NextScan == ScanStored \/ Finish

SpecScan == Init /\ [][NextScan]_vars

\* the filters on any list of intervals
OcatGroups ==
    {[grating |-> "HETG", S3 |-> "N", ccd_count |-> 2, num_counts |-> 300],
     [grating |-> "NONE", S3 |-> "Y", ccd_count |-> 1, num_counts |-> 299],
     [grating |-> "NONE", S3 |-> "Y", ccd_count |-> 1, num_counts |-> 300],
     [grating |-> "NONE", S3 |-> "N", ccd_count |-> 1, num_counts |-> 299],
     [grating |-> "NONE", S3 |-> "Y", ccd_count |-> 2, num_counts |-> 299]}

Obs(o, ins) ==
    [datestart |-> Date(1), datestop |-> Date(2), tstart |-> 1, tstop |-> 2,
     start_science |-> 1, obsid |-> o, instrument |-> ins]

ObsWith(o, ins, g) ==
    [datestart |-> Date(1), datestop |-> Date(2), tstart |-> 1, tstop |-> 2,
     start_science |-> 1, obsid |-> o, instrument |-> ins,
     grating |-> g.grating, ccd_count |-> g.ccd_count, S3 |-> g.S3,
     num_counts |-> g.num_counts]

FilterObsids == {38000, 60000}
FilterObs ==
    {Obs(o, ins) : o \in FilterObsids, ins \in Instruments}
    \cup {ObsWith(o, ins, g) : o \in FilterObsids, ins \in Instruments,
                               g \in OcatGroups}

FilterLists == UNION {[1..k -> FilterObs] : k \in 0..MaxObs}

InitFilter == \E list \in FilterLists : Start("returned", list, DefaultSimpos)

NextFilter == HrcScienceObsFilter \/ AcisFilter \/ AcisFilterDirect

SpecFilter == InitFilter /\ [][NextFilter]_vars

\* who_in_fp on the positions around the edges of its bands
Edges == {104839, 82109, 82108, 70736, 0 - 20000, 0 - 86147, 0 - 86148, 0 - 104362}
SimposInputs ==
    {0, DefaultSimpos} \cup UNION {(e - EdgeWidth)..(e + EdgeWidth) : e \in Edges}

InitWho == \E sp \in SimposInputs : Start("who", <<>>, sp)

SpecWho == InitWho /\ [][WhoInFp]_vars

(***************************************************************************)
(* Properties.                                                             *)
(***************************************************************************)
ManeuverRange(o) == 38001 <= o /\ o < 60000

Returned == pc \in {"returned", "filtered", "done"}

\* positions of the recorded stream, among its non-maneuver records
StartAt(k) ==
    /\ ~ManeuverRange(cmd_states[k].obsid)
    /\ cmd_states[k].power_cmd \in {"WSPOW00000", "WSVIDALLDN"}
ScienceAt(k) ==
    /\ ~ManeuverRange(cmd_states[k].obsid)
    /\ cmd_states[k].power_cmd \in {"XTZ0000005", "XCZ0000005"}
StopAt(k) ==
    /\ ~ManeuverRange(cmd_states[k].obsid)
    /\ cmd_states[k].power_cmd = "AA00000000"

\* k closes a matched sequence: start marker, later science marker, then
\* the AA00000000 at k, with no other non-maneuver AA00000000 after the start
Matched(k) ==
    /\ StopAt(k)
    /\ \E i \in 1..(k - 1) : \E j \in (i + 1)..(k - 1) :
          /\ StartAt(i)
          /\ ScienceAt(j)
          /\ \A m \in (i + 1)..(k - 1) : ~StopAt(m)

Closes == {k \in 1..Len(cmd_states) : Matched(k)}

\* C1: no interval of the list built and returned by find_obsid_intervals
\* has an obsid in the maneuver range 38001 <= obsid < 60000, whatever the
\* power_cmd of the records carrying such obsids.
C1_NoManeuverInterval ==
    \A i \in 1..Len(obsid_interval_list) :
        ~ManeuverRange(obsid_interval_list[i].obsid)

\* a list was returned for a stream in which a maneuver AA00000000 arrived
\* inside an open interval whose science marker was latched
C1_Witness ==
    /\ pc = "returned"
    /\ Len(obsid_interval_list) = 1
    /\ \E k \in 1..Len(cmd_states) :
          /\ ManeuverRange(cmd_states[k].obsid)
          /\ cmd_states[k].power_cmd = "AA00000000"
          /\ \E i \in 1..(k - 1) : \E j \in (i + 1)..(k - 1) :
                StartAt(i) /\ ScienceAt(j) /\ \A m \in i..k : ~StopAt(m)

\* C2: every interval of the list corresponds to a matched sequence of the
\* stream (start marker, later science marker, later closing AA00000000,
\* no other non-maneuver AA00000000 in between) and has the obsid, datestop
\* and tstop of the closing record; during the scan the m-th interval is
\* that of the m-th closing record; there are never more intervals than
\* closing records, so a span left open at the end of the stream adds none.
C2_MatchedSequence ==
    /\ Len(obsid_interval_list) <= Cardinality(Closes)
    /\ \A m \in 1..Len(obsid_interval_list) :
          \E k \in Closes :
             /\ obsid_interval_list[m].obsid = cmd_states[k].obsid
             /\ obsid_interval_list[m].datestop = cmd_states[k].datestop
             /\ obsid_interval_list[m].tstop = cmd_states[k].tstop
             /\ pc = "scan" => Cardinality({c \in Closes : c <= k}) = m

\* one interval was emitted and returned, and the stream ended inside a
\* second span whose start marker had been seen
C2_Witness ==
    /\ pc = "returned"
    /\ Len(obsid_interval_list) = 1
    /\ firstpow
    /\ Cardinality(Closes) = 1

\* an interval without its catalog group
Core(e) ==
    [datestart |-> e.datestart, datestop |-> e.datestop, tstart |-> e.tstart,
     tstop |-> e.tstop, start_science |-> e.start_science, obsid |-> e.obsid,
     instrument |-> e.instrument]

Count(list, e) == Cardinality({i \in 1..Len(list) : list[i] = e})

CoreSeq(list) == [i \in 1..Len(list) |-> Core(list[i])]

\* C3: the list returned by find_obsid_intervals is sorted by tstart
\* ascending; a record of the stream adds at most one interval, at the end of
\* the list, and the return neither adds, drops nor repeats an interval.
C3_SortedOnce ==
    /\ [](Returned =>
            \A i \in 1..Len(obsid_interval_list) :
                \A j \in i..Len(obsid_interval_list) :
                    obsid_interval_list[i].tstart <= obsid_interval_list[j].tstart)
    /\ [][/\ (pc = "scan" /\ pc' = "scan") =>
                /\ Len(obsid_interval_list') <= Len(obsid_interval_list) + 1
                /\ SubSeq(obsid_interval_list', 1, Len(obsid_interval_list))
                      = obsid_interval_list
          /\ (pc = "scan" /\ pc' = "returned") =>
                /\ Len(obsid_interval_list') = Len(obsid_interval_list)
                /\ \A e \in Range(obsid_interval_list) :
                      Count(CoreSeq(obsid_interval_list'), e)
                         = Count(obsid_interval_list, e)]_vars

\* two intervals were returned in tstart order although the sort on obsid
\* had put them the other way round
C3_Witness ==
    /\ pc = "returned"
    /\ Len(obsid_interval_list) = 2
    /\ obsid_interval_list[1].tstart < obsid_interval_list[2].tstart
    /\ obsid_interval_list[1].obsid > obsid_interval_list[2].obsid

\* C4: who_in_fp returns exactly one label: ACIS-I iff 82109 <= simpos <=
\* 104839, ACIS-S iff 70736 <= simpos <= 82108, HRC-I iff -86147 <= simpos
\* <= -20000, HRC-S iff -104362 <= simpos <= -86148, launchlock otherwise.
C4_Bands ==
    pc = "who_done" =>
        /\ is_in_the_fp \in {"ACIS-I", "ACIS-S", "HRC-I", "HRC-S", "launchlock"}
        /\ is_in_the_fp = "ACIS-I" <=> (82109 <= simpos /\ simpos <= 104839)
        /\ is_in_the_fp = "ACIS-S" <=> (70736 <= simpos /\ simpos <= 82108)
        /\ is_in_the_fp = "HRC-I" <=> (0 - 86147 <= simpos /\ simpos <= 0 - 20000)
        /\ is_in_the_fp = "HRC-S" <=> (0 - 104362 <= simpos /\ simpos <= 0 - 86148)
        /\ is_in_the_fp = "launchlock" <=>
              ~(\/ (82109 <= simpos /\ simpos <= 104839)
                \/ (70736 <= simpos /\ simpos <= 82108)
                \/ (0 - 86147 <= simpos /\ simpos <= 0 - 20000)
                \/ (0 - 104362 <= simpos /\ simpos <= 0 - 86148))

\* the position just above the ACIS-I band was classified
C4_Witness == pc = "who_done" /\ simpos = 104840 /\ is_in_the_fp = "launchlock"

\* the p-th smallest member of a set of positions
Nth(S, p) == CHOOSE i \in S : Cardinality({j \in S : j <= i}) = p

\* list is the elements of from at the positions in S, in their order
IsSelection(list, from, S) ==
    /\ Len(list) = Cardinality(S)
    /\ \A p \in 1..Len(list) : list[p] = from[Nth(S, p)]

AcisInput ==
    IF acis_and_ecs_only = None THEN obsid_interval_list ELSE acis_and_ecs_only[1]

AcisDone == pc = "done" /\ buckets # None

In(name, e) == \E p \in 1..Len(buckets[1][name]) : buckets[1][name][p] = e

Hot(e) ==
    /\ "grating" \in DOMAIN e
    /\ \/ e.grating = "HETG"
       \/ (e.num_counts < 300 /\ e.S3 = "Y" /\ e.ccd_count = 1)

\* C6: acis_filter puts an interval in acis_hot iff it is hot (it has a
\* catalog group and grating = HETG or num_counts < 300, S3 = Y and
\* ccd_count = 1), else in acis_s iff it is ACIS-S, else in acis_i iff it is
\* ACIS-I, else in cold_ecs iff it is HRC-S with obsid >= 60000.
C6_FirstMatch ==
    AcisDone =>
        \A i \in 1..Len(AcisInput) :
            LET e == AcisInput[i]
            IN  /\ In("acis_hot", e) <=> Hot(e)
                /\ In("acis_s", e) <=> (~Hot(e) /\ e.instrument = "ACIS-S")
                /\ In("acis_i", e) <=> (~Hot(e) /\ e.instrument = "ACIS-I")
                /\ In("cold_ecs", e) <=>
                      (~Hot(e) /\ e.instrument = "HRC-S" /\ e.obsid >= 60000)
                /\ "grating" \notin DOMAIN e => ~In("acis_hot", e)

\* a hot HRC-I interval went to acis_hot and an ACIS-S interval without a
\* catalog group to acis_s
C6_Witness ==
    /\ AcisDone
    /\ \E p \in 1..Len(buckets[1]["acis_hot"]) :
          /\ buckets[1]["acis_hot"][p].instrument = "HRC-I"
          /\ buckets[1]["acis_hot"][p].grating = "NONE"
    /\ \E p \in 1..Len(buckets[1]["acis_s"]) :
          "grating" \notin DOMAIN buckets[1]["acis_s"][p]

Unclassifiable(e) ==
    /\ ~Hot(e)
    /\ e.instrument # "ACIS-S"
    /\ e.instrument # "ACIS-I"
    /\ ~(e.instrument = "HRC-S" /\ e.obsid >= 60000)

AcisEnded == pc = "done" \/ (pc = "raised" /\ error # "" /\ error[1] = "RuntimeError")

\* C7: acis_filter raises exactly when some interval of its input is not hot
\* and is neither ACIS-S, nor ACIS-I, nor HRC-S with obsid >= 60000; the
\* error names the obsid of the first such interval and no bucket is
\* returned; otherwise every interval is in a bucket.
C7_FatalError ==
    AcisEnded =>
        LET bad == {i \in 1..Len(AcisInput) : Unclassifiable(AcisInput[i])}
        IN  IF bad = {}
            THEN /\ pc = "done"
                 /\ error = ""
                 /\ \A i \in 1..Len(AcisInput) :
                       \E name \in DOMAIN buckets[1] : In(name, AcisInput[i])
            ELSE /\ pc = "raised"
                 /\ buckets = None
                 /\ error = <<"RuntimeError", AcisInput[Nth(bad, 1)].obsid>>

\* acis_filter raised for an HRC-S interval below 60000 that followed an
\* interval it could place
C7_Witness ==
    /\ pc = "raised"
    /\ error = <<"RuntimeError", 38000>>
    /\ Len(AcisInput) = 2
    /\ AcisInput[1].instrument = "ACIS-I"
    /\ AcisInput[2].instrument = "HRC-S"

BucketNames == {"acis_i", "acis_s", "acis_hot", "cold_ecs"}

\* C8: when acis_filter returns, its four buckets partition its input: each
\* bucket holds, in input order, the input intervals at some positions, every
\* position is taken by exactly one bucket, and nothing else is in a bucket.
C8_Partition ==
    AcisDone =>
        /\ DOMAIN buckets[1] = BucketNames
        /\ \E where \in [1..Len(AcisInput) -> BucketNames] :
              \A name \in BucketNames :
                  IsSelection(buckets[1][name], AcisInput,
                              {i \in 1..Len(AcisInput) : where[i] = name})

\* two different intervals went to the same bucket
C8_Witness ==
    /\ AcisDone
    /\ Len(AcisInput) = 2
    /\ AcisInput[1] # AcisInput[2]
    /\ Len(buckets[1]["acis_hot"]) = 2

\* a request of fetch_ocat_data ended, after its retries, in a connection
\* error or in a response that is not OK
FetchFailed ==
    /\ pc # "scan"
    /\ \/ net.r1 \in {"ConnectionError", "notok"}
       \/ (net.r1 = "ok" /\ net.r2 \in {"ConnectionError", "notok"})

Unenriched ==
    /\ ocat_data = None
    /\ warnings = 1
    /\ \A i \in 1..Len(obsid_interval_list) :
          DOMAIN obsid_interval_list[i]
             = {"datestart", "datestop", "tstart", "tstop", "start_science",
                "obsid", "instrument"}

\* C9 as stated: after a failed catalog fetch no interval has a catalog
\* attribute, a warning is logged, nothing raises and the pipeline returns
\* its buckets.
C9_Original ==
    FetchFailed =>
        /\ Unenriched
        /\ pc # "raised"
        /\ pc = "done" => buckets # None

\* C9, amended: after a failed catalog fetch no interval has a catalog
\* attribute, one warning is logged and find_obsid_intervals and
\* hrc_science_obs_filter do not raise; acis_filter then returns its buckets
\* unless an interval that hrc_science_obs_filter kept is neither ACIS-S,
\* nor ACIS-I, nor HRC-S with obsid >= 60000, and only then the run ends in
\* its classification error.
C9_FetchFailure ==
    FetchFailed =>
        /\ Unenriched
        /\ pc \in {"returned", "filtered"} => error = ""
        /\ pc = "done" => buckets # None
        /\ pc = "raised" =>
              /\ acis_and_ecs_only # None
              /\ error[1] = "RuntimeError"
              /\ \E i \in 1..Len(acis_and_ecs_only[1]) :
                    /\ acis_and_ecs_only[1][i].instrument \in {"HRC-I", "launchlock"}
                    /\ acis_and_ecs_only[1][i].obsid >= 60000
              /\ buckets = None

\* the second request failed and the two intervals of the list were bucketed
C9_Witness ==
    /\ pc = "done"
    /\ net = [r1 |-> "ok", r2 |-> "ConnectionError"]
    /\ ~got_seq_table
    /\ Len(obsid_interval_list) = 2
    /\ Len(buckets[1]["acis_s"]) = 1
    /\ Len(buckets[1]["cold_ecs"]) = 1

\* C10: after a successful fetch, the catalog attributes of an interval of
\* the returned list are those of the row of the fetched table whose obsid
\* is the interval's obsid.
C10_ByObsid ==
    (pc = "returned" /\ ocat_data # None) =>
        \A i \in 1..Len(obsid_interval_list) :
            LET e == obsid_interval_list[i]
                d == ocat_data[1]
            IN  "grating" \in DOMAIN e =>
                    \E j \in 1..Len(d.obsid) :
                        /\ d.obsid[j] = e.obsid
                        /\ e.grating = d.grating[j]
                        /\ e.ccd_count = d.ccd_count[j]
                        /\ e.S3 = d.S3[j]
                        /\ e.num_counts = d.num_counts[j]

\* fetch_ocat_data was called: its first retry_call has a result
FetchCalled == net.r1 # ""

\* C11: find_obsid_intervals calls fetch_ocat_data once its scan is over, and
\* the obsid list it passes holds no obsid above 60000.
C11_OnlyEligible ==
    pc # "scan" =>
        /\ FetchCalled
        /\ \A i \in 1..Len(obsids) : obsids[i] <= 60000

CatalogKeys == {"grating", "ccd_count", "S3", "num_counts"}

HasGroup(e) == CatalogKeys \subseteq DOMAIN e

\* C12: after a successful fetch, an interval of the list returned by
\* find_obsid_intervals has the catalog group (grating, ccd_count, S3,
\* num_counts) iff its obsid is at most 60000; an interval above 60000 has
\* none of the four, and an interval at exactly 60000 has them.
C12_GroupIffEligible ==
    (Returned /\ ocat_data # None) =>
        \A i \in 1..Len(obsid_interval_list) :
            LET e == obsid_interval_list[i]
            IN  /\ HasGroup(e) <=> e.obsid <= 60000
                /\ e.obsid > 60000 => DOMAIN e \cap CatalogKeys = {}

\* a list was returned after a successful fetch with an interval at 60000
\* that has the group and an interval at 60001 that has not
C12_Witness ==
    /\ pc = "returned"
    /\ ocat_data # None
    /\ Len(obsid_interval_list) = 2
    /\ \E i, j \in 1..2 :
          /\ obsid_interval_list[i].obsid = 60000
          /\ "grating" \in DOMAIN obsid_interval_list[i]
          /\ obsid_interval_list[j].obsid = 60001
          /\ "grating" \notin DOMAIN obsid_interval_list[j]

\* the exceptions that leave fetch_ocat_data
FetchErrors == {"Timeout", "InconsistentTableError"}

\* the run ended inside fetch_ocat_data
FetchRaised ==
    /\ pc = "raised"
    /\ acis_and_ecs_only = None
    /\ error \in FetchErrors

\* C13: whatever its two requests do (connection error, timeout, response
\* that is not OK, text that cannot be parsed, rows missing), fetch_ocat_data
\* returns its dict or None and raises nothing to find_obsid_intervals.
C13_Total == pc # "scan" => (FetchCalled /\ ~FetchRaised)

\* the positions the stable sort on obsid can give an interval of list
ObsidRanks(list, e) ==
    LET less == Cardinality({j \in 1..Len(list) : list[j].obsid < e.obsid})
        same == Cardinality({j \in 1..Len(list) : list[j].obsid = e.obsid})
    IN  (less + 1)..(less + same)

\* C14: what find_obsid_intervals returns is determined by the emitted
\* intervals and the catalog response, so that two runs on the same input
\* return the same list: it has the emitted intervals in the order of their
\* tstart, ties in tstart in the order of their obsid and ties in both in the
\* order of emission, and the catalog attributes of an interval are those
\* the response holds at the interval's rank in obsid order.
C14_Determined ==
    [][(pc = "scan" /\ pc' = "returned") =>
          LET old == obsid_interval_list
              new == obsid_interval_list'
          IN  /\ Len(new) = Len(old)
              /\ \A i \in 1..Len(new) :
                    /\ Count(CoreSeq(new), Core(new[i])) = Count(old, Core(new[i]))
                    /\ "grating" \in DOMAIN new[i] =>
                          \E p \in ObsidRanks(new, new[i]) :
                              /\ new[i].grating = ocat_data'[1].grating[p]
                              /\ new[i].ccd_count = ocat_data'[1].ccd_count[p]
                              /\ new[i].S3 = ocat_data'[1].S3[p]
                              /\ new[i].num_counts = ocat_data'[1].num_counts[p]
              /\ \A i \in 1..Len(new) : \A j \in (i + 1)..Len(new) :
                    \/ new[i].tstart < new[j].tstart
                    \/ /\ new[i].tstart = new[j].tstart
                       /\ \/ new[i].obsid < new[j].obsid
                          \/ /\ new[i].obsid = new[j].obsid
                             /\ \E a \in 1..Len(old) : \E b \in a..Len(old) :
                                   /\ old[a] = Core(new[i])
                                   /\ old[b] = Core(new[j])]_vars

\* two intervals with the same tstart and different obsids were returned
\* with their catalog attributes
C14_Witness ==
    /\ pc = "returned"
    /\ Len(obsid_interval_list) = 2
    /\ obsid_interval_list[1].tstart = obsid_interval_list[2].tstart
    /\ obsid_interval_list[1].obsid < obsid_interval_list[2].obsid
    /\ "grating" \in DOMAIN obsid_interval_list[1]
    /\ "grating" \in DOMAIN obsid_interval_list[2]

\* the scan loop consumes record r in this step
Consumes(r) == pc = "scan" /\ cmd_states' = Append(cmd_states, r)

\* the step leaves the extractor's state and its list as they are
ScanUnchanged == UNCHANGED <<scanvars, obsid_interval_list>>

\* the first start marker after the last non-maneuver AA00000000 before k
FirstStart(k) ==
    LET stops == {m \in 1..(k - 1) : StopAt(m)}
        after == {i \in 1..(k - 1) : StartAt(i) /\ \A m \in stops : m < i}
    IN  CHOOSE i \in after : \A j \in after : i <= j

\* the first science marker after that start marker
FirstScience(k) ==
    LET marks == {j \in (FirstStart(k) + 1)..(k - 1) : ScienceAt(j)}
    IN  CHOOSE j \in marks : \A m \in marks : j <= m

C16_FirstScience ==
    /\ [](\A m \in 1..Len(obsid_interval_list) :
             \E k \in Closes :
                /\ obsid_interval_list[m].tstop = cmd_states[k].tstop
                /\ obsid_interval_list[m].obsid = cmd_states[k].obsid
                /\ obsid_interval_list[m].start_science
                      = cmd_states[FirstScience(k)].tstart
                /\ obsid_interval_list[m].instrument
                      = who_in_fp(cmd_states[FirstScience(k)].simpos))
    /\ [][\A r \in StoredStates :
             (/\ Consumes(r)
              /\ r.power_cmd \in {"XTZ0000005", "XCZ0000005"}
              /\ (~firstpow \/ xtztime # None)) => ScanUnchanged]_vars

\* a science marker came before the start marker, with another time and
\* another focal-plane position than the one that followed it, and the
\* interval emitted has the values of the second
C16_Witness ==
    /\ Len(cmd_states) = 4
    /\ ScienceAt(1) /\ StartAt(2) /\ ScienceAt(3) /\ StopAt(4)
    /\ cmd_states[1].tstart # cmd_states[3].tstart
    /\ who_in_fp(cmd_states[1].simpos) # who_in_fp(cmd_states[3].simpos)
    /\ Len(obsid_interval_list) = 1
    /\ obsid_interval_list[1].start_science = cmd_states[3].tstart
    /\ obsid_interval_list[1].instrument = who_in_fp(cmd_states[3].simpos)

\* r is an AA00000000 outside the maneuver range
ClosingRecord(r) == r.power_cmd = "AA00000000" /\ ~ManeuverRange(r.obsid)

\* C17: a non-maneuver AA00000000 consumed while an interval is open sets
\* firstpow to false and xtztime to None, appends one interval if a science
\* marker was latched and none otherwise; consumed while no interval is
\* open it changes nothing; and no other step of the scan clears firstpow
\* or xtztime.
C17_StopResets ==
    [][/\ \A r \in StoredStates :
             (Consumes(r) /\ ClosingRecord(r)) =>
                 IF firstpow
                 THEN /\ firstpow' = FALSE
                      /\ xtztime' = None
                      /\ xtztime = None => obsid_interval_list' = obsid_interval_list
                      /\ xtztime # None =>
                            /\ Len(obsid_interval_list') = Len(obsid_interval_list) + 1
                            /\ SubSeq(obsid_interval_list', 1, Len(obsid_interval_list))
                                  = obsid_interval_list
                 ELSE ScanUnchanged
       /\ ((firstpow /\ ~firstpow') \/ (xtztime # None /\ xtztime' = None)) =>
             \E r \in StoredStates : Consumes(r) /\ ClosingRecord(r) /\ firstpow]_vars

\* an AA00000000 closed an interval in which no science marker was seen:
\* nothing was emitted and the interval is no longer open
C17_Witness ==
    /\ pc = "scan"
    /\ Len(cmd_states) = 2
    /\ StartAt(1) /\ StopAt(2)
    /\ ~firstpow
    /\ xtztime = None
    /\ obsid_interval_list = <<>>

\* C18: a record with an obsid in [38001, 60000) changes neither the
\* extractor's state nor the list whatever its power_cmd, and so does a
\* record whose power_cmd is none of the five markers.
C18_SkippedRecords ==
    [][\A r \in StoredStates :
          (/\ Consumes(r)
           /\ \/ ManeuverRange(r.obsid)
              \/ r.power_cmd \notin {"WSPOW00000", "WSVIDALLDN", "XTZ0000005",
                                     "XCZ0000005", "AA00000000"}) => ScanUnchanged]_vars

\* an AA00000000 with a maneuver obsid was consumed inside an open interval
\* with its science marker latched, which is still open
C18_Witness ==
    /\ pc = "scan"
    /\ Len(cmd_states) = 3
    /\ StartAt(1) /\ ScienceAt(2)
    /\ ManeuverRange(cmd_states[3].obsid)
    /\ cmd_states[3].power_cmd = "AA00000000"
    /\ firstpow
    /\ xtztime # None
    /\ obsid_interval_list = <<>>

\* C19: in every list returned by find_obsid_intervals an interval has all
\* four catalog attributes (grating, ccd_count, S3, num_counts) or none, so
\* that an interval in which acis_filter finds grating has the other three.
C19_AllOrNothing ==
    Returned =>
        \A i \in 1..Len(obsid_interval_list) :
            LET has == DOMAIN obsid_interval_list[i] \cap CatalogKeys
            IN  /\ has = {} \/ has = CatalogKeys
                /\ "grating" \in has => {"S3", "ccd_count", "num_counts"} \subseteq has

\* acis_filter has read the group of an interval it put in acis_hot and has
\* put an interval without any catalog attribute in cold_ecs
C19_Witness ==
    /\ AcisDone
    /\ Len(obsid_interval_list) = 2
    /\ \E p \in 1..Len(buckets[1]["acis_hot"]) :
          CatalogKeys \subseteq DOMAIN buckets[1]["acis_hot"][p]
    /\ \E p \in 1..Len(buckets[1]["cold_ecs"]) :
          DOMAIN buckets[1]["cold_ecs"][p] \cap CatalogKeys = {}

\* C20: when the pipeline find_obsid_intervals, hrc_science_obs_filter,
\* acis_filter returns its buckets, every interval in acis_hot is ACIS-I or
\* ACIS-S and every HRC-S interval with obsid >= 60000 given to acis_filter
\* is in cold_ecs, obsid 60000 included.
C20_Pipeline ==
    (AcisDone /\ acis_and_ecs_only # None) =>
        /\ \A p \in 1..Len(buckets[1]["acis_hot"]) :
              buckets[1]["acis_hot"][p].instrument \in {"ACIS-I", "ACIS-S"}
        /\ \A i \in 1..Len(acis_and_ecs_only[1]) :
              LET e == acis_and_ecs_only[1][i]
              IN  (e.instrument = "HRC-S" /\ e.obsid >= 60000) => In("cold_ecs", e)

====
